---- MODULE Spec2Model ----
(***************************************************************************)
(* Waterfall (masonry) layout engine of static/script.js.                  *)
(*                                                                         *)
(* The state is the engine's globals (columnHeights, columnCount,          *)
(* itemWidth, itemGap), the grid container (its children, their inline     *)
(* position, its height), the thumbnail <img> of every card (complete,     *)
(* naturalWidth, naturalHeight, registered load/error listeners) and the   *)
(* promises of the layout passes.  One action is one event-loop task: the  *)
(* handler together with the promise continuations it makes runnable.      *)
(* Lengths are CSS pixels.                                                  *)
(***************************************************************************)
EXTENDS Integers, Sequences, FiniteSets

\* ------------------------------------------------------------------ bounds
\* cards created over a behaviour
MaxElems == 2
\* calls of layoutWaterfall over a behaviour
MaxPasses == 2
\* folder cards created over a behaviour of the folder specification
MaxFolders == 5

\* viewport widths of the sizing specification: both sides of every breakpoint,
\* the scenario width 1000 and one width above the 1400 cap
Widths == {480, 481, 768, 769, 1000, 1024, 1025, 1200, 1201, 1600}

\* the modes of the two view buttons
ViewModes == {"grid", "list"}

\* values the thumbnail-size slider is moved to, px
ThumbnailSizes == {150, 300}

\* viewport widths of the folder specification: one width per column count,
\* 1 to 5 columns
FolderWidths == {480, 768, 1000, 1200, 1600}

\* viewport widths of the engine specification: one column and three columns
EngineWidths == {480, 1000}

\* natural sizes <<naturalWidth, naturalHeight>> a thumbnail can load with;
\* naturalWidth divides naturalHeight, so itemWidth * (h / w) is an integer
\* and the double arithmetic of the code is exact
NaturalSizes == {<<200, 200>>, <<200, 400>>}

\* ------------------------------------------------------- program constants
MaxContainerWidth == 1400
MobileBreakpoint == 480
TabletBreakpoint == 768
SmallBreakpoint == 1024
MediumBreakpoint == 1200
InitialItemWidth == 236
InitialItemGap == 16
FolderPreviewHeight == 220
FolderInfoHeight == 60
ImageInfoHeight == 50
RecycleInfoHeight == 30
DefaultInfoHeight == 50
\* the wait of the debounced resize handler, ms
DebounceWait == 300

\* the step of the clock of the debounce specification: a third of the wait
TickMs == DebounceWait \div 3
\* burstMs stops counting at twice the wait
MaxBurstMs == 2 * DebounceWait

VARIABLES
    innerWidth,     \* window.innerWidth
    columnHeights,  \* global columnHeights (column c of the code is index c + 1)
    columnCount,    \* global columnCount
    itemWidth,      \* global itemWidth
    itemGap,        \* global itemGap
    elems,          \* every card created so far, by identity: its kind
    grid,           \* imageGrid.children, in document order
    img,            \* per card: complete / naturalWidth / naturalHeight of its thumbnail
    listeners,      \* per card: the passes whose onLoad/onError pair is registered, in order
    style,          \* per card: <<>> or <<[left, top, width]>> as written by positionItem
    gridHeight,     \* imageGrid.style.height: <<>> is 'auto', <<h>> is h px
    layoutTimers,   \* pending setTimeout(layoutWaterfall, 100) of displayContent
    resizeTimer,    \* the debounce timer of the resize handler is armed
    resizeDelay,    \* ms left on the armed debounce timer (0 when it is due or not armed)
    sinceResize,    \* history: ms since the latest resize event while the timer is armed
    burstMs,        \* history: ms since the first resize event of the latest burst
    viewMode,       \* imageGrid.className: "grid" is 'image-grid', "list" is 'image-grid list-view'
    thumbnailSize,  \* value of the thumbnail-size slider last handled: <<>> or <<size>>
    passCount,      \* layoutWaterfall calls so far; a pass is named by its number
    passItems,      \* history, per pass: the cards it mapped over
    deferred,       \* history: the cards the latest pass registered listeners on
    waiting,        \* per pass: cards whose layoutWaterfallItem promise is unresolved
    resolved,       \* per pass: the promise returned by layoutWaterfall has resolved
    positionedBy,   \* history, per pass: cards its own calls of positionItem placed
    placed,         \* history: placements since the latest reset, in order
    layoutWidth,    \* history: window.innerWidth read by the latest initWaterfallLayout
    currentDirectory,        \* global currentDirectory: "" is null or the empty option
    currentPage,             \* global currentPage
    totalPages,              \* global totalPages
    currentImages,           \* global currentImages: the entries of the listing last loaded
    currentRecycleBinItems,  \* global currentRecycleBinItems
    isSelectionMode,         \* global isSelectionMode
    selectedImages,          \* global selectedImages: a set of 0-based indices
    isRecycleBinMode,        \* global isRecycleBinMode
    requests,                \* fetches in flight, in the order they were issued
    prevDisabled,            \* prevPage button: disabled
    nextDisabled             \* nextPage button: disabled

vars == <<innerWidth, columnHeights, columnCount, itemWidth, itemGap, elems, grid,
          img, listeners, style, gridHeight, layoutTimers, resizeTimer, resizeDelay, sinceResize,
          burstMs, passCount,
          passItems, deferred, waiting, resolved, positionedBy, placed, layoutWidth,
          viewMode, thumbnailSize,
          currentDirectory, currentPage, totalPages, currentImages, currentRecycleBinItems,
          isSelectionMode, selectedImages, isRecycleBinMode, requests, prevDisabled,
             nextDisabled>>

\* the globals of the browser around the layout engine
appVars == <<currentDirectory, currentPage, totalPages, currentImages, currentRecycleBinItems,
             isSelectionMode, selectedImages, isRecycleBinMode, requests, prevDisabled,
             nextDisabled>>

Passes == 1..MaxPasses
ElemIds == 1..MaxElems
FolderIds == 1..MaxFolders

\* ------------------------------------------------------------- helpers
Range(s) == {s[k] : k \in 1..Len(s)}

\* variant: the height of the first column stands for the maximum
SeqMax_firstColumn(s) == s[1]

RECURSIVE SeqMax(_)
\* Math.max(...columnHeights)
SeqMax(s) ==
    IF Len(s) = 1 THEN s[1]
    ELSE LET m == SeqMax(Tail(s)) IN IF s[1] >= m THEN s[1] ELSE m

\* variant: the array has one slot more than asked for
Zeros_oneMore(n) == [c \in 1..(n + 1) |-> 0]

\* new Array(n).fill(0)
Zeros(n) == [c \in 1..n |-> 0]

\* --------------------------------------------------- initWaterfallLayout
\* variant: the viewport width is used without the cap
ContainerWidth_uncapped(w) == w

ContainerWidth(w) == IF w > MaxContainerWidth THEN MaxContainerWidth ELSE w

\* variant: the breakpoints are exclusive upper bounds
BreakpointColumns_exclusive(w) ==
    IF w < MobileBreakpoint THEN 1
    ELSE IF w < TabletBreakpoint THEN 2
    ELSE IF w < SmallBreakpoint THEN 3
    ELSE IF w < MediumBreakpoint THEN 4
    ELSE 5

BreakpointColumns(w) ==
    IF w <= MobileBreakpoint THEN 1
    ELSE IF w <= TabletBreakpoint THEN 2
    ELSE IF w <= SmallBreakpoint THEN 3
    ELSE IF w <= MediumBreakpoint THEN 4
    ELSE 5

BreakpointGap(w) ==
    IF w <= MobileBreakpoint THEN 12
    ELSE IF w <= TabletBreakpoint THEN 12
    ELSE IF w <= SmallBreakpoint THEN 14
    ELSE IF w <= MediumBreakpoint THEN 16
    ELSE 16

\* the branch's itemWidth, computed from the value itemGap has when the
\* function is entered (the branch assigns itemGap after it has used it),
\* then Math.floor
BranchItemWidth(w, gapOnEntry) ==
    LET n == BreakpointColumns(w)
        cw == ContainerWidth(w)
    IN  IF n = 1 THEN cw - 40
        ELSE (cw - 60 - (n - 1) * gapOnEntry) \div n

\* variant: columnHeights is kept when the column count has not changed
InitWaterfallLayout_keepsHeights(w, gapOnEntry) ==
    [columnCount |-> BreakpointColumns(w),
     itemWidth |-> BranchItemWidth(w, gapOnEntry),
     itemGap |-> BreakpointGap(w),
     columnHeights |-> IF Len(columnHeights) = BreakpointColumns(w) THEN columnHeights
                       ELSE Zeros(BreakpointColumns(w))]

\* the globals after initWaterfallLayout ran at window.innerWidth = w
InitWaterfallLayout(w, gapOnEntry) ==
    [columnCount |-> BreakpointColumns(w),
     itemWidth |-> BranchItemWidth(w, gapOnEntry),
     itemGap |-> BreakpointGap(w),
     columnHeights |-> Zeros(BreakpointColumns(w))]

\* ------------------------------------------------------------ positionItem
RECURSIVE ScanShortest_lastOfTies(_, _, _, _)
\* variant: a column as low as the candidate replaces it (<= for <)
ScanShortest_lastOfTies(heights, count, i, shortest) ==
    IF i >= count THEN shortest
    ELSE ScanShortest_lastOfTies(heights, count, i + 1,
                                 IF heights[i + 1] <= heights[shortest + 1] THEN i
                                 ELSE shortest)

RECURSIVE ScanShortest(_, _, _, _)
\* the for loop of positionItem: i runs from 1 to count - 1, a column replaces
\* the candidate only when it is strictly lower
ScanShortest(heights, count, i, shortest) ==
    IF i >= count THEN shortest
    ELSE ScanShortest(heights, count, i + 1,
                      IF heights[i + 1] < heights[shortest + 1] THEN i ELSE shortest)

\* variant: the scan is skipped, the first column is always taken
ShortestColumn_alwaysFirst(heights, count) == 0

\* shortestColumn after the loop of positionItem
ShortestColumn(heights, count) == ScanShortest(heights, count, 1, 0)

\* the structures of a grid child that layoutWaterfallItem and positionItem tell
\* apart: a folder card, and an .image-item with or without an .image-thumbnail,
\* an .image-info and a .recycle-bin-info child. The renderers of the file
\* create "folder", "image" and "recycle" cards only
CardKinds == {"folder", "image", "recycle", "captioned", "captioned-recycle", "bare"}

\* element.querySelector('.image-info') !== null: no card the file creates has one
HasImageInfo(kind) == kind \in {"captioned", "captioned-recycle"}

\* element.querySelector('.recycle-bin-info') !== null
HasRecycleInfo(kind) == kind \in {"recycle", "captioned-recycle"}

\* variant: a folder card counts its preview area only
ItemHeight_folderPreviewOnly(cfg, kind, image) ==
    IF image # <<>> /\ image[1].naturalWidth # 0 /\ image[1].naturalHeight # 0
    THEN (cfg.itemWidth * image[1].naturalHeight) \div image[1].naturalWidth
         + (IF HasImageInfo(kind) THEN ImageInfoHeight
            ELSE IF HasRecycleInfo(kind) THEN RecycleInfoHeight ELSE 0)
    ELSE IF kind = "folder" THEN FolderPreviewHeight
    ELSE cfg.itemWidth + DefaultInfoHeight

\* variant: only the .image-info caption is counted, a .recycle-bin-info adds nothing
ItemHeight_noRecycleCaption(cfg, kind, image) ==
    IF image # <<>> /\ image[1].naturalWidth # 0 /\ image[1].naturalHeight # 0
    THEN (cfg.itemWidth * image[1].naturalHeight) \div image[1].naturalWidth
         + (IF HasImageInfo(kind) THEN ImageInfoHeight ELSE 0)
    ELSE IF kind = "folder" THEN FolderPreviewHeight + FolderInfoHeight
    ELSE cfg.itemWidth + DefaultInfoHeight

\* variant: the fallback of a card without a usable image is the bare itemWidth
ItemHeight_bareDefault(cfg, kind, image) ==
    IF image # <<>> /\ image[1].naturalWidth # 0 /\ image[1].naturalHeight # 0
    THEN (cfg.itemWidth * image[1].naturalHeight) \div image[1].naturalWidth
         + (IF HasImageInfo(kind) THEN ImageInfoHeight
            ELSE IF HasRecycleInfo(kind) THEN RecycleInfoHeight ELSE 0)
    ELSE IF kind = "folder" THEN FolderPreviewHeight + FolderInfoHeight
    ELSE cfg.itemWidth

\* itemHeight of positionItem; image is <<>> for null, <<i>> for an <img> in state i
ItemHeight(cfg, kind, image) ==
    IF image # <<>> /\ image[1].naturalWidth # 0 /\ image[1].naturalHeight # 0
    THEN (cfg.itemWidth * image[1].naturalHeight) \div image[1].naturalWidth
         + (IF HasImageInfo(kind) THEN ImageInfoHeight
            ELSE IF HasRecycleInfo(kind) THEN RecycleInfoHeight ELSE 0)
    ELSE IF kind = "folder" THEN FolderPreviewHeight + FolderInfoHeight
    ELSE cfg.itemWidth + DefaultInfoHeight

\* variant: left is a multiple of itemWidth alone, the gap is left out
PositionItem_leftWithoutGap(L, cfg, e, kind, image, p) ==
    LET itemHeight == ItemHeight(cfg, kind, image)
        Place(V, shortestColumn) ==
            LET left == shortestColumn * cfg.itemWidth
                top == V.columnHeights[shortestColumn + 1]
                Commit(heights) ==
                    [columnHeights |-> heights,
                     style |-> [V.style EXCEPT ![e] =
                                   <<[left |-> left, top |-> top, width |-> cfg.itemWidth]>>],
                     gridHeight |-> <<SeqMax(heights)>>,
                     positionedBy |-> [V.positionedBy EXCEPT ![p] = @ \cup {e}],
                     placed |-> Append(V.placed, [elem |-> e, pass |-> p,
                                                  column |-> shortestColumn,
                                                  top |-> top, height |-> itemHeight])]
            IN  CHOOSE r \in {Commit(h) : h \in {[V.columnHeights EXCEPT ![shortestColumn + 1] =
                                                      @ + itemHeight + cfg.itemGap]}} : TRUE
    IN  CHOOSE r \in {Place(V, c) : V \in {L},
                                    c \in {ShortestColumn(L.columnHeights, cfg.columnCount)}} : TRUE

\* variant: the chosen column grows by itemHeight alone
PositionItem_growsWithoutGap(L, cfg, e, kind, image, p) ==
    LET itemHeight == ItemHeight(cfg, kind, image)
        Place(V, shortestColumn) ==
            LET left == shortestColumn * (cfg.itemWidth + cfg.itemGap)
                top == V.columnHeights[shortestColumn + 1]
                Commit(heights) ==
                    [columnHeights |-> heights,
                     style |-> [V.style EXCEPT ![e] =
                                   <<[left |-> left, top |-> top, width |-> cfg.itemWidth]>>],
                     gridHeight |-> <<SeqMax(heights)>>,
                     positionedBy |-> [V.positionedBy EXCEPT ![p] = @ \cup {e}],
                     placed |-> Append(V.placed, [elem |-> e, pass |-> p,
                                                  column |-> shortestColumn,
                                                  top |-> top, height |-> itemHeight])]
            IN  CHOOSE r \in {Commit(h) : h \in {[V.columnHeights EXCEPT ![shortestColumn + 1] =
                                                      @ + itemHeight]}} : TRUE
    IN  CHOOSE r \in {Place(V, c) : V \in {L},
                                    c \in {ShortestColumn(L.columnHeights, cfg.columnCount)}} : TRUE

\* positionItem(element, img) run by a callback of pass p on the layout state L
\* with the globals cfg (the singleton sets make TLC evaluate L, the chosen
\* column and the new heights once)
PositionItem(L, cfg, e, kind, image, p) ==
    LET itemHeight == ItemHeight(cfg, kind, image)
        Place(V, shortestColumn) ==
            LET left == shortestColumn * (cfg.itemWidth + cfg.itemGap)
                top == V.columnHeights[shortestColumn + 1]
                Commit(heights) ==
                    [columnHeights |-> heights,
                     style |-> [V.style EXCEPT ![e] =
                                   <<[left |-> left, top |-> top, width |-> cfg.itemWidth]>>],
                     gridHeight |-> <<SeqMax(heights)>>,
                     positionedBy |-> [V.positionedBy EXCEPT ![p] = @ \cup {e}],
                     placed |-> Append(V.placed, [elem |-> e, pass |-> p,
                                                  column |-> shortestColumn,
                                                  top |-> top, height |-> itemHeight])]
            IN  CHOOSE r \in {Commit(h) : h \in {[V.columnHeights EXCEPT ![shortestColumn + 1] =
                                                      @ + itemHeight + cfg.itemGap]}} : TRUE
    IN  CHOOSE r \in {Place(V, c) : V \in {L},
                                    c \in {ShortestColumn(L.columnHeights, cfg.columnCount)}} : TRUE

\* variant: the pass does not wait for its item promises
PromiseAll_notAwaited(unresolved) == TRUE

\* Promise.all over the item promises of a pass: settled once none is unresolved
PromiseAll(unresolved) == unresolved = {}

\* ------------------------------------------------------- layoutWaterfallItem
\* variant: any <img> below the card counts as its thumbnail, the preview image
\* of a folder card included
HasThumbnail_anyImage(kind) == kind # "bare"

\* the card has an .image-thumbnail child
HasThumbnail(kind) == kind \in {"image", "recycle", "captioned", "captioned-recycle"}

\* variant: a card without a thumbnail is not positioned at once
PlacedAtOnce_needsImage(kind, image) == HasThumbnail(kind) /\ image.complete

\* layoutWaterfallItem positions the card at once (no thumbnail, or img.complete)
PlacedAtOnce(kind, image) == ~HasThumbnail(kind) \/ image.complete

RECURSIVE MapItems_sequential(_, _, _, _, _)
\* variant: the cards are awaited one after the other, so the map stops at the
\* first card whose thumbnail is pending
MapItems_sequential(S, cfg, items, k, p) ==
    IF k > Len(items) THEN S
    ELSE LET e == items[k]
             kind == elems[e]
         IN  IF PlacedAtOnce(kind, img[e])
             THEN MapItems_sequential([S EXCEPT !.L = PositionItem(S.L, cfg, e, kind,
                                                         IF HasThumbnail(kind) THEN <<img[e]>>
                                                         ELSE <<>>, p)],
                                      cfg, items, k + 1, p)
             ELSE [S EXCEPT !.listeners[e] = Append(@, p), !.waiting = @ \cup {e}]

RECURSIVE MapItems_racing(_, _, _, _, _)
\* variant: the cards of the map race on columnHeights: each one reads the
\* heights the pass started with, and its write is lost to the next card
MapItems_racing(S, cfg, items, k, p) ==
    IF k > Len(items) THEN S
    ELSE LET e == items[k]
             kind == elems[e]
         IN  IF PlacedAtOnce(kind, img[e])
             THEN MapItems_racing(
                      [S EXCEPT !.L = [PositionItem(S.L, cfg, e, kind,
                                           IF HasThumbnail(kind) THEN <<img[e]>> ELSE <<>>, p)
                                       EXCEPT !.columnHeights =
                                           IF k < Len(items) THEN S.L.columnHeights ELSE @]],
                      cfg, items, k + 1, p)
             ELSE MapItems_racing([S EXCEPT !.listeners[e] = Append(@, p),
                                            !.waiting = @ \cup {e}],
                                  cfg, items, k + 1, p)

RECURSIVE MapItems_lastFirst(_, _, _, _, _)
\* variant: the map visits the cards from the last child to the first
MapItems_lastFirst(S, cfg, items, k, p) ==
    IF k > Len(items) THEN S
    ELSE LET e == items[Len(items) + 1 - k]
             kind == elems[e]
         IN  IF PlacedAtOnce(kind, img[e])
             THEN MapItems_lastFirst(
                      [S EXCEPT !.L = PositionItem(S.L, cfg, e, kind,
                                          IF HasThumbnail(kind) THEN <<img[e]>> ELSE <<>>, p)],
                      cfg, items, k + 1, p)
             ELSE MapItems_lastFirst([S EXCEPT !.listeners[e] = Append(@, p),
                                               !.waiting = @ \cup {e}],
                                     cfg, items, k + 1, p)

RECURSIVE MapItems(_, _, _, _, _)
\* Array.from(items).map(layoutWaterfallItem) of pass p over items[k..]:
\* S carries the layout state L, the listeners and the cards left waiting
MapItems(S, cfg, items, k, p) ==
    IF k > Len(items) THEN S
    ELSE LET e == items[k]
             kind == elems[e]
         IN  IF PlacedAtOnce(kind, img[e])
             THEN MapItems([S EXCEPT !.L = PositionItem(S.L, cfg, e, kind,
                                              IF HasThumbnail(kind) THEN <<img[e]>> ELSE <<>>, p)],
                           cfg, items, k + 1, p)
             ELSE MapItems([S EXCEPT !.listeners[e] = Append(@, p),
                                     !.waiting = @ \cup {e}],
                           cfg, items, k + 1, p)

RECURSIVE RunListeners_loadOnly(_, _, _, _, _)
\* variant: only load callbacks are registered, an error event runs nothing
RunListeners_loadOnly(S, cfg, e, image, ps) ==
    IF ps = <<>> \/ image = <<>> THEN S
    ELSE RunListeners_loadOnly([L |-> PositionItem(S.L, cfg, e, elems[e], image, Head(ps)),
                                waiting |-> [S.waiting EXCEPT ![Head(ps)] = @ \ {e}]],
                               cfg, e, image, Tail(ps))

RECURSIVE RunListeners_measuredOnly(_, _, _, _, _)
\* variant: a callback resolves its item promise only when the thumbnail was
\* measured; after an error or a zero-sized load the card is placed and stays
\* awaited
RunListeners_measuredOnly(S, cfg, e, image, ps) ==
    IF ps = <<>> THEN S
    ELSE RunListeners_measuredOnly(
             [L |-> PositionItem(S.L, cfg, e, elems[e], image, Head(ps)),
              waiting |-> IF image # <<>> /\ image[1].naturalWidth # 0
                          THEN [S.waiting EXCEPT ![Head(ps)] = @ \ {e}]
                          ELSE S.waiting],
             cfg, e, image, Tail(ps))

RECURSIVE RunListeners(_, _, _, _, _)
\* the load (image = <<i>>) or error (image = <<>>) event of card e: every
\* registered callback, in registration order, positions the card and resolves
\* its item promise
RunListeners(S, cfg, e, image, ps) ==
    IF ps = <<>> THEN S
    ELSE RunListeners([L |-> PositionItem(S.L, cfg, e, elems[e], image, Head(ps)),
                       waiting |-> [S.waiting EXCEPT ![Head(ps)] = @ \ {e}]],
                      cfg, e, image, Tail(ps))

\* ------------------------------------------------------------------ state
LayoutState ==
    [columnHeights |-> columnHeights, style |-> style, gridHeight |-> gridHeight,
     positionedBy |-> positionedBy, placed |-> placed]

Globals == [columnCount |-> columnCount, itemWidth |-> itemWidth, itemGap |-> itemGap]

PendingImg == [naturalWidth |-> 0, naturalHeight |-> 0, complete |-> FALSE]

\* fetches that can be in flight at once
MaxRequests == 1

\* the page in a window of width w before any layout pass, with the cards
\* `cards` as the children of the grid; ids are the identities the cards of the
\* behaviour will get
InitWith(w, ids, cards) ==
    /\ innerWidth = w
    /\ columnHeights = <<>>
    /\ columnCount = 0
    /\ itemWidth = InitialItemWidth
    /\ itemGap = InitialItemGap
    /\ elems = cards
    /\ grid = [k \in 1..Len(cards) |-> k]
    /\ img = [e \in ids |-> PendingImg]
    /\ listeners = [e \in ids |-> <<>>]
    /\ style = [e \in ids |-> <<>>]
    /\ gridHeight = <<>>
    /\ layoutTimers = 0
    /\ resizeTimer = FALSE
    /\ resizeDelay = 0
    /\ sinceResize = 0
    /\ burstMs = 0
    /\ viewMode = "grid"
    /\ thumbnailSize = <<>>
    /\ passCount = 0
    /\ passItems = [p \in Passes |-> <<>>]
    /\ deferred = {}
    /\ waiting = [p \in Passes |-> {}]
    /\ resolved = [p \in Passes |-> FALSE]
    /\ positionedBy = [p \in Passes |-> {}]
    /\ placed = <<>>
    /\ layoutWidth = 0
    /\ currentDirectory = ""
    /\ currentPage = 1
    /\ totalPages = 1
    /\ currentImages = <<>>
    /\ currentRecycleBinItems = <<>>
    /\ isSelectionMode = FALSE
    /\ selectedImages = {}
    /\ isRecycleBinMode = FALSE
    /\ requests = <<>>
    /\ prevDisabled = FALSE
    /\ nextDisabled = FALSE

\* the page before any content is rendered
InitOver(w, ids) == InitWith(w, ids, <<>>)

InitAt(w) == InitOver(w, ElemIds)

Init == \E w \in EngineWidths : InitAt(w)

\* ---------------------------------------------------------------- actions
\* layoutWaterfall(): initWaterfallLayout, then layoutWaterfallItem over the
\* cards of the grid; the returned promise resolves with Promise.all
LayoutWaterfall ==
    /\ passCount < MaxPasses
    /\ passCount' = passCount + 1
    /\ layoutWidth' = innerWidth
    /\ passItems' = [passItems EXCEPT ![passCount + 1] = grid]
    /\ \E cfg \in {InitWaterfallLayout(innerWidth, itemGap)} :
          /\ columnCount' = cfg.columnCount
          /\ itemWidth' = cfg.itemWidth
          /\ itemGap' = cfg.itemGap
          /\ \E S \in {MapItems([L |-> [LayoutState EXCEPT !.columnHeights = cfg.columnHeights,
                                                           !.gridHeight = <<>>,
                                                           !.placed = <<>>],
                                   listeners |-> listeners,
                                   waiting |-> {}],
                                  cfg, grid, 1, passCount + 1)} :
                /\ columnHeights' = S.L.columnHeights
                /\ style' = S.L.style
                /\ gridHeight' = S.L.gridHeight
                /\ positionedBy' = S.L.positionedBy
                /\ placed' = S.L.placed
                /\ listeners' = S.listeners
                /\ deferred' = S.waiting
                /\ waiting' = [waiting EXCEPT ![passCount + 1] = S.waiting]
                /\ resolved' = [resolved EXCEPT ![passCount + 1] = PromiseAll(S.waiting)]

\* displayContent(subdirectories, images): the grid is emptied, nf folder cards
\* and then ni image cards are created and appended, and the layout is scheduled;
\* cap bounds the cards created over the behaviour
DisplayContentCards(nf, ni, cap) ==
    LET first == Len(elems) + 1
        n == nf + ni
    IN  /\ Len(elems) + n <= cap
        /\ passCount + layoutTimers < MaxPasses
        /\ elems' = elems \o [k \in 1..n |-> IF k <= nf THEN "folder" ELSE "image"]
        /\ grid' = [k \in 1..n |-> first + k - 1]
        /\ layoutTimers' = layoutTimers + 1
        /\ UNCHANGED <<innerWidth, columnHeights, columnCount, itemWidth, itemGap, img,
                       listeners, style, gridHeight, resizeTimer, resizeDelay, sinceResize,
                       burstMs, passCount, passItems,
                       deferred, waiting, resolved, positionedBy, placed, layoutWidth,
                       viewMode, thumbnailSize>>

\* displayContent with the globals of the browser left as they are
DisplayContentUpTo(nf, ni, cap) == DisplayContentCards(nf, ni, cap) /\ UNCHANGED appVars

DisplayContent(nf, ni) == DisplayContentUpTo(nf, ni, MaxElems)

\* the setTimeout(() => layoutWaterfall(), 100) of displayContent fires
LayoutTimeout ==
    /\ layoutTimers > 0
    /\ layoutTimers' = layoutTimers - 1
    /\ LayoutWaterfall
    /\ UNCHANGED <<innerWidth, elems, grid, img, resizeTimer, resizeDelay, sinceResize,
                   burstMs, viewMode, thumbnailSize>>
    /\ UNCHANGED appVars

\* variant: the resize event itself clears the column heights
Resize_clearsHeights(w) ==
    /\ innerWidth' = w
    /\ resizeTimer' = TRUE
    /\ resizeDelay' = DebounceWait
    /\ sinceResize' = 0
    /\ burstMs' = IF resizeTimer THEN burstMs ELSE 0
    /\ columnHeights' = Zeros(Len(columnHeights))
    /\ UNCHANGED <<columnCount, itemWidth, itemGap, elems, grid, img,
                   listeners, style, gridHeight, layoutTimers, passCount, passItems,
                   deferred, waiting, resolved, positionedBy, placed, layoutWidth,
                   viewMode, thumbnailSize>>
    /\ UNCHANGED appVars

\* variant: an event that finds the timer armed leaves its delay running
Resize_keepsRunningTimer(w) ==
    /\ innerWidth' = w
    /\ resizeTimer' = TRUE
    /\ resizeDelay' = IF resizeTimer THEN resizeDelay ELSE DebounceWait
    /\ sinceResize' = 0
    /\ burstMs' = IF resizeTimer THEN burstMs ELSE 0
    /\ UNCHANGED <<columnHeights, columnCount, itemWidth, itemGap, elems, grid, img,
                   listeners, style, gridHeight, layoutTimers, passCount, passItems,
                   deferred, waiting, resolved, positionedBy, placed, layoutWidth,
                   viewMode, thumbnailSize>>
    /\ UNCHANGED appVars

\* a window resize event: the debounced handler (re)arms its 300 ms timer
Resize(w) ==
    /\ innerWidth' = w
    /\ resizeTimer' = TRUE
    /\ resizeDelay' = DebounceWait
    /\ sinceResize' = 0
    /\ burstMs' = IF resizeTimer THEN burstMs ELSE 0
    /\ UNCHANGED <<columnHeights, columnCount, itemWidth, itemGap, elems, grid, img,
                   listeners, style, gridHeight, layoutTimers, passCount, passItems,
                   deferred, waiting, resolved, positionedBy, placed, layoutWidth,
                   viewMode, thumbnailSize>>
    /\ UNCHANGED appVars

\* the debounce timer fires: relayout when the grid has children
ResizeTimeout ==
    /\ resizeTimer
    /\ resizeTimer' = FALSE
    /\ resizeDelay' = 0
    /\ sinceResize' = 0
    /\ IF Len(grid) > 0
       THEN LayoutWaterfall
       ELSE UNCHANGED <<columnHeights, columnCount, itemWidth, itemGap, listeners, style,
                        gridHeight, passCount, passItems, deferred, waiting, resolved,
                        positionedBy, placed, layoutWidth>>
    /\ UNCHANGED <<innerWidth, elems, grid, img, layoutTimers, burstMs, viewMode, thumbnailSize>>
    /\ UNCHANGED appVars

\* variant: the callbacks that ran stay registered
FireEvent_keepsListeners(e, i, image) ==
    /\ e \in 1..Len(elems)
    /\ HasThumbnail(elems[e])
    /\ img' = [img EXCEPT ![e] = i]
    /\ listeners' = listeners
    /\ \E S \in {RunListeners([L |-> LayoutState, waiting |-> waiting], Globals, e, image,
                               listeners[e])} :
          /\ columnHeights' = S.L.columnHeights
          /\ style' = S.L.style
          /\ gridHeight' = S.L.gridHeight
          /\ positionedBy' = S.L.positionedBy
          /\ placed' = S.L.placed
          /\ waiting' = S.waiting
          /\ resolved' = [p \in Passes |-> IF p \in Range(listeners[e])
                                           THEN PromiseAll(S.waiting[p]) ELSE resolved[p]]
    /\ UNCHANGED <<innerWidth, columnCount, itemWidth, itemGap, elems, grid,
                   layoutTimers, resizeTimer, resizeDelay, sinceResize, burstMs, passCount,
                   passItems, deferred, layoutWidth,
                   viewMode, thumbnailSize>>
    /\ UNCHANGED appVars

\* a load (image = <<i>>) or error (image = <<>>) event is dispatched on the
\* thumbnail of card e, whose <img> is then in state i: every registered
\* callback of the event runs and removes the listener pair of its pass
FireEvent(e, i, image) ==
    /\ e \in 1..Len(elems)
    /\ HasThumbnail(elems[e])
    /\ img' = [img EXCEPT ![e] = i]
    /\ listeners' = [listeners EXCEPT ![e] = <<>>]
    /\ \E S \in {RunListeners([L |-> LayoutState, waiting |-> waiting], Globals, e, image,
                               listeners[e])} :
          /\ columnHeights' = S.L.columnHeights
          /\ style' = S.L.style
          /\ gridHeight' = S.L.gridHeight
          /\ positionedBy' = S.L.positionedBy
          /\ placed' = S.L.placed
          /\ waiting' = S.waiting
          /\ resolved' = [p \in Passes |-> IF p \in Range(listeners[e])
                                           THEN PromiseAll(S.waiting[p]) ELSE resolved[p]]
    /\ UNCHANGED <<innerWidth, columnCount, itemWidth, itemGap, elems, grid,
                   layoutTimers, resizeTimer, resizeDelay, sinceResize, burstMs, passCount,
                   passItems, deferred, layoutWidth,
                   viewMode, thumbnailSize>>
    /\ UNCHANGED appVars

\* the load or error event of the pending thumbnail of card e, whose <img>
\* becomes i
ImgEvent(e, i, image) == ~img[e].complete /\ FireEvent(e, i, image)

\* the other event is dispatched on a thumbnail that has already fired load
\* or error
ImgLateEvent(e, image) == img[e].complete /\ FireEvent(e, img[e], image)

\* the thumbnail of card e loads with natural size s: onLoad callbacks run
ImgLoad(e, s) ==
    LET i == [naturalWidth |-> s[1], naturalHeight |-> s[2], complete |-> TRUE]
    IN  ImgEvent(e, i, <<i>>)

\* the thumbnail of card e fails to load: onError callbacks run
ImgError(e) == ImgEvent(e, [img[e] EXCEPT !.complete = TRUE], <<>>)

Next ==
    \/ \E nf, ni \in 0..MaxElems : DisplayContent(nf, ni)
    \/ LayoutTimeout
    \/ \E w \in EngineWidths : Resize(w)
    \/ ResizeTimeout
    \/ \E e \in ElemIds, s \in NaturalSizes : ImgLoad(e, s)
    \/ \E e \in ElemIds : ImgError(e)

Spec == Init /\ [][Next]_vars

\* every pending thumbnail eventually fires load or error
ImgSettles(e) == (\E s \in NaturalSizes : ImgLoad(e, s)) \/ ImgError(e)

\* content renders, their scheduled passes and the thumbnail events
LiveNext ==
    \/ \E nf, ni \in 0..MaxElems : DisplayContent(nf, ni)
    \/ LayoutTimeout
    \/ \E e \in ElemIds, s \in NaturalSizes : ImgLoad(e, s)
    \/ \E e \in ElemIds : ImgError(e)

LiveSpec == Init /\ [][LiveNext]_vars /\ \A e \in ElemIds : WF_vars(ImgSettles(e))

\* sizing: folder cards only, every viewport width
SizingInit == \E w \in Widths : InitAt(w)

SizingNext ==
    \/ \E nf \in 0..MaxElems : DisplayContent(nf, 0)
    \/ LayoutTimeout
    \/ \E w \in Widths : Resize(w)
    \/ ResizeTimeout

SizingSpec == SizingInit /\ [][SizingNext]_vars

\* resize bursts on the clock: time passes in steps of TickMs while the debounce
\* timer is armed, and a due timer runs its callback before more time passes
Tick ==
    /\ resizeTimer
    /\ resizeDelay > 0
    /\ resizeDelay' = resizeDelay - TickMs
    /\ sinceResize' = sinceResize + TickMs
    /\ burstMs' = IF burstMs + TickMs > MaxBurstMs THEN MaxBurstMs ELSE burstMs + TickMs
    /\ UNCHANGED <<innerWidth, columnHeights, columnCount, itemWidth, itemGap, elems, grid,
                   img, listeners, style, gridHeight, layoutTimers, resizeTimer, passCount,
                   passItems, deferred, waiting, resolved, positionedBy, placed, layoutWidth,
                   viewMode, thumbnailSize>>
    /\ UNCHANGED appVars

\* the debounce timer fires when its delay has run out
DueResizeTimeout == resizeDelay = 0 /\ ResizeTimeout

DebounceNext ==
    \/ \E nf \in 0..MaxElems : DisplayContent(nf, 0)
    \/ LayoutTimeout
    \/ \E w \in EngineWidths : Resize(w)
    \/ Tick
    \/ DueResizeTimeout

DebounceSpec == Init /\ [][DebounceNext]_vars

\* setViewMode(mode), the definition in force (the last of the three function
\* declarations of the name): the class names are set and nothing else
SetViewMode(mode) ==
    /\ viewMode' = mode
    /\ UNCHANGED <<innerWidth, columnHeights, columnCount, itemWidth, itemGap, elems, grid,
                   img, listeners, style, gridHeight, layoutTimers, resizeTimer, resizeDelay,
                   sinceResize, burstMs, passCount, passItems, deferred, waiting, resolved,
                   positionedBy, placed, layoutWidth, thumbnailSize>>
    /\ UNCHANGED appVars

\* the card is an .image-item of the document
IsImageItem(e) == e \in Range(grid) /\ elems[e] # "folder"

\* handleThumbnailSizeChange(e): every .image-item of the document gets the
\* inline width of the slider value; its left and top stay as they are
\* (a card never positioned has the width alone)
HandleThumbnailSizeChange(size) ==
    /\ thumbnailSize' = <<size>>
    /\ style' = [e \in DOMAIN style |->
                    IF ~IsImageItem(e) THEN style[e]
                    ELSE IF style[e] = <<>> THEN <<[width |-> size]>>
                    ELSE <<[style[e][1] EXCEPT !.width = size]>>]
    /\ UNCHANGED <<innerWidth, columnHeights, columnCount, itemWidth, itemGap, elems, grid,
                   img, listeners, gridHeight, layoutTimers, resizeTimer, resizeDelay,
                   sinceResize, burstMs, passCount, passItems, deferred, waiting, resolved,
                   positionedBy, placed, layoutWidth, viewMode>>
    /\ UNCHANGED appVars

\* the four relayout triggers: content renders, view-mode clicks, window
\* resizes and slider moves
TriggerNext ==
    \/ \E nf, ni \in 0..MaxElems : DisplayContent(nf, ni)
    \/ LayoutTimeout
    \/ \E w \in EngineWidths : Resize(w)
    \/ ResizeTimeout
    \/ \E mode \in ViewModes : SetViewMode(mode)
    \/ \E size \in ThumbnailSizes : HandleThumbnailSizeChange(size)

TriggerSpec == Init /\ [][TriggerNext]_vars

\* the layout engine over grid children of every structure: the grid holds
\* one to MaxElems cards of any kind, layoutWaterfall() is called, and the
\* thumbnails load (also with zero natural dimensions) or fail
CardSeqs == UNION {[1..n -> CardKinds] : n \in 1..MaxElems}

\* natural sizes a load event can report, a zero-sized image included
LoadedSizes == {<<200, 400>>, <<0, 0>>}

ItemInit == \E w \in EngineWidths, cards \in CardSeqs : InitWith(w, ElemIds, cards)

\* a call of layoutWaterfall() by any of its callers
CallLayoutWaterfall ==
    /\ LayoutWaterfall
    /\ UNCHANGED <<innerWidth, elems, grid, img, layoutTimers, resizeTimer, resizeDelay,
                   sinceResize, burstMs, viewMode, thumbnailSize>>
    /\ UNCHANGED appVars

\* the .folder-preview-image of folder card e (created when the folder has a
\* preview image) finishes loading with natural size s; nothing listens to it
PreviewLoad(e, s) ==
    /\ e \in 1..Len(elems)
    /\ elems[e] = "folder"
    /\ ~img[e].complete
    /\ img' = [img EXCEPT ![e] = [naturalWidth |-> s[1], naturalHeight |-> s[2],
                                  complete |-> TRUE]]
    /\ UNCHANGED <<innerWidth, columnHeights, columnCount, itemWidth, itemGap, elems, grid,
                   listeners, style, gridHeight, layoutTimers, resizeTimer, resizeDelay,
                   sinceResize, burstMs, viewMode, thumbnailSize, passCount, passItems,
                   deferred, waiting, resolved, positionedBy, placed, layoutWidth>>
    /\ UNCHANGED appVars

ItemNext ==
    \/ CallLayoutWaterfall
    \/ \E e \in ElemIds, s \in LoadedSizes : PreviewLoad(e, s)
    \/ \E e \in ElemIds : ImgLateEvent(e, <<img[e]>>) \/ ImgLateEvent(e, <<>>)
    \/ \E e \in ElemIds, s \in LoadedSizes : ImgLoad(e, s)
    \/ \E e \in ElemIds : ImgError(e)

ItemSpec == ItemInit /\ [][ItemNext]_vars

\* folder listings: up to MaxFolders folder cards, every column count
FolderInit == \E w \in FolderWidths : InitOver(w, FolderIds)

FolderNext ==
    \/ \E nf \in 0..MaxFolders : DisplayContentUpTo(nf, 0, MaxFolders)
    \/ LayoutTimeout
    \/ \E w \in FolderWidths : Resize(w)
    \/ ResizeTimeout

FolderSpec == FolderInit /\ [][FolderNext]_vars

\* ================================================================ properties
\* the breakpoint table of the sizing contract
TableColumns(w) ==
    CASE w <= 480 -> 1
      [] w > 480 /\ w <= 768 -> 2
      [] w > 768 /\ w <= 1024 -> 3
      [] w > 1024 /\ w <= 1200 -> 4
      [] OTHER -> 5

TableGap(w) ==
    CASE w <= 480 -> 12
      [] w > 480 /\ w <= 768 -> 12
      [] w > 768 /\ w <= 1024 -> 14
      [] w > 1024 /\ w <= 1200 -> 16
      [] OTHER -> 16

Min(a, b) == IF a <= b THEN a ELSE b

\* the latest pass, its cards and whether it has run to completion undisturbed
LatestItems == Range(passItems[passCount])

\* C1: a callback registered by an earlier pass is discarded once a newer pass
\* has started: every placement made since the latest reset belongs to the
\* latest pass, so no earlier pass's callback has changed columnHeights, the
\* container height or an item position of the new pass.
C1_StaleCallbackDiscarded ==
    \A k \in 1..Len(placed) : placed[k].pass = passCount

\* C2: initWaterfallLayout is pure in the viewport width: after any pass, the
\* config equals the one a first pass from the initial globals (itemGap = 16)
\* computes at the same width, whatever passes ran before.
C2_ConfigPureInWidth ==
    passCount > 0 =>
        LET first == InitWaterfallLayout(layoutWidth, InitialItemGap)
        IN  /\ columnCount = first.columnCount
            /\ itemGap = first.itemGap
            /\ itemWidth = first.itemWidth

\* C3: after initWaterfallLayout at width w, itemWidth is
\* floor((min(w,1400) - 60 - (N-1)*gap) / N) for N > 1 and min(w,1400) - 40 for
\* N = 1, with N and gap the table's values for w itself.
C3_ItemWidthFromOwnGap ==
    passCount > 0 =>
        LET n == TableColumns(layoutWidth)
            gap == TableGap(layoutWidth)
            cw == Min(layoutWidth, 1400)
        IN  itemWidth = IF n = 1 THEN cw - 40 ELSE (cw - 60 - (n - 1) * gap) \div n

\* C4: after initWaterfallLayout at width w, (columnCount, itemGap) is the
\* table's row for w, the upper bounds 480, 768, 1024, 1200 being inclusive.
C4_BreakpointTable ==
    passCount > 0 =>
        /\ columnCount = TableColumns(layoutWidth)
        /\ itemGap = TableGap(layoutWidth)

\* a second pass, run just above the last breakpoint: five columns
C4_Witness ==
    /\ passCount = 2
    /\ layoutWidth = 1201
    /\ columnCount = 5
    /\ itemGap = 16

\* C5: after every initWaterfallLayout the columns and the gaps between them
\* fit the container: columnCount * itemWidth + (columnCount - 1) * itemGap
\* <= min(viewportWidth, 1400).
C5_ColumnsFitContainer ==
    passCount > 0 =>
        columnCount * itemWidth + (columnCount - 1) * itemGap <= Min(layoutWidth, 1400)

\* five columns above the cap, entered with the gap 12 of a narrower pass
C5_Witness ==
    /\ passCount = 2
    /\ layoutWidth = 1600
    /\ columnCount = 5
    /\ itemWidth = 258

\* C6: a pass run right after a completed pass, on the same ordered cards at
\* the same viewport width (the thumbnails are all settled, so the outcomes
\* are the same), gives every card the left, top and width it had before.
C6_SecondPassSamePositions ==
    [][(/\ passCount >= 1
        /\ resolved[passCount]
        /\ passCount' = passCount + 1
        /\ passItems'[passCount'] = passItems[passCount]
        /\ layoutWidth' = layoutWidth
        /\ resolved'[passCount'])
       => \A e \in LatestItems : style'[e] = style[e]]_vars

RECURSIVE PlaceInOrder(_, _, _, _)
\* the layout state after positioning the cards of order[k..] on L, with the
\* thumbnails as they are now
PlaceInOrder(L, order, k, p) ==
    IF k > Len(order) THEN L
    ELSE PlaceInOrder(PositionItem(L, Globals, order[k], elems[order[k]],
                                   IF HasThumbnail(elems[order[k]]) /\ img[order[k]].naturalWidth # 0
                                   THEN <<img[order[k]]>> ELSE <<>>, p),
                      order, k + 1, p)

\* one of the orders a pass can place its cards in: the cards placed at once,
\* then the deferred ones with their events fired in document order
DocumentEventOrder(p) ==
    LET AtOnce(e) == e \notin deferred
        Deferred(e) == e \in deferred
    IN  SelectSeq(passItems[p], AtOnce) \o SelectSeq(passItems[p], Deferred)

\* C7: the positions after a completed pass do not depend on the order in
\* which the load/error events fired: they are the positions the pass gives
\* when the events fire in document order.
C7_PositionsIndependentOfEventOrder ==
    (/\ passCount >= 1
     /\ resolved[passCount]
     /\ Len(placed) = Len(passItems[passCount])
     /\ \A k \in 1..Len(placed) : placed[k].pass = passCount)
    => LET L0 == [LayoutState EXCEPT !.columnHeights = Zeros(columnCount)]
           ref == PlaceInOrder(L0, DocumentEventOrder(passCount), 1, passCount)
       IN  \A e \in LatestItems : style[e] = ref.style[e]

\* C9: the promise of a pass is resolved only when every card the pass mapped
\* over has been positioned by it, those whose thumbnail fired error included,
\* and none of its callbacks is still waiting for load/error.
C9_ResolvedOnlyWhenAllPositioned ==
    \A p \in 1..passCount :
        resolved[p] =>
            /\ Range(passItems[p]) \subseteq positionedBy[p]
            /\ \A e \in ElemIds : p \notin Range(listeners[e])

\* a resolved pass that had to wait for a thumbnail which then fired error
C9_Witness ==
    /\ passCount >= 1
    /\ resolved[passCount]
    /\ \E e \in deferred :
          img[e].complete /\ img[e].naturalWidth = 0 /\ e \in positionedBy[passCount]

\* C10: when every pending thumbnail eventually fires load or error, every
\* pass that was started eventually has its promise resolved.
C10_PassEventuallyResolves ==
    \A p \in Passes : (passCount >= p) ~> resolved[p]

\* a resolved pass that waited for two thumbnails, one loaded and one failed
C10_Witness ==
    /\ passCount >= 1
    /\ resolved[passCount]
    /\ \E e1, e2 \in deferred :
          /\ img[e1].complete /\ img[e1].naturalWidth # 0
          /\ img[e2].complete /\ img[e2].naturalWidth = 0

RECURSIVE SeqSum(_)
\* the sum of the column heights
SeqSum(s) == IF s = <<>> THEN 0 ELSE s[1] + SeqSum(Tail(s))

\* the thumbnail of image card e fires error in this step
FiresError(e) ==
    /\ e <= Len(elems)
    /\ elems[e] = "image"
    /\ ~img[e].complete
    /\ img'[e].complete
    /\ img'[e].naturalWidth = 0

\* C11: an image card whose thumbnail fires error is placed, by every callback
\* registered on it, with itemHeight = itemWidth + 50, so the columns grow by
\* itemWidth + 50 + itemGap per placement; the pass goes on: the card counts
\* as positioned, its item promise is resolved and the pass resolves as soon
\* as no other card is waiting.
C11_ErrorPlacedWithDefaultHeight ==
    [][\A e \in ElemIds :
          FiresError(e) =>
              LET n == Len(listeners[e])
              IN  /\ Len(placed') = Len(placed) + n
                  /\ \A k \in (Len(placed) + 1)..Len(placed') :
                        /\ placed'[k].elem = e
                        /\ placed'[k].height = itemWidth + 50
                  /\ SeqSum(columnHeights') =
                         SeqSum(columnHeights) + n * (itemWidth + 50 + itemGap)
                  /\ \A p \in Range(listeners[e]) :
                        /\ e \in positionedBy'[p]
                        /\ waiting'[p] = waiting[p] \ {e}
                        /\ resolved'[p] <=> (waiting'[p] = {})]_vars

\* a card the latest pass deferred was placed by its error callback below an
\* earlier card, and the pass has resolved
C11_Witness ==
    /\ passCount >= 1
    /\ resolved[passCount]
    /\ \E k \in 1..Len(placed) :
          /\ placed[k].elem \in deferred
          /\ elems[placed[k].elem] = "image"
          /\ img[placed[k].elem].naturalWidth = 0
          /\ placed[k].height = itemWidth + 50
          /\ placed[k].top > 0

\* C12: a thumbnail that has not fired load or error holds back only its own
\* card: in every state, every card a pass mapped over that has no thumbnail,
\* or whose thumbnail is complete (it was at the pass, or it has fired since),
\* has been positioned by that pass, whatever thumbnails are still pending.
C12_StuckImageBlocksOnlyItself ==
    \A p \in 1..passCount :
        \A e \in Range(passItems[p]) :
            PlacedAtOnce(elems[e], img[e]) => e \in positionedBy[p] /\ style[e] # <<>>

\* the latest pass waits for a thumbnail that has not fired, while a sibling
\* card it deferred has fired since and is positioned
C12_Witness ==
    /\ passCount >= 1
    /\ ~resolved[passCount]
    /\ \E stuck, other \in deferred :
          /\ ~img[stuck].complete
          /\ stuck \in waiting[passCount]
          /\ stuck < other
          /\ img[other].complete
          /\ other \in positionedBy[passCount]

RECURSIVE GrownBefore(_, _)
\* what the placements before the k-th one (since the latest reset) have added
\* to column c: itemHeight + itemGap each
GrownBefore(c, k) ==
    IF k <= 1 THEN 0
    ELSE GrownBefore(c, k - 1)
         + (IF placed[k - 1].column = c THEN placed[k - 1].height + itemGap ELSE 0)

\* the column heights the k-th placement since the latest reset found
HeightsBefore(k) == [c \in 1..columnCount |-> GrownBefore(c - 1, k)]

\* C13: positionItem places the card in the column of minimum current height,
\* and in the lowest-indexed one when several columns share the minimum: every
\* other column was higher, or as high and further right.
C13_ShortestColumnLowestIndex ==
    \A k \in 1..Len(placed) :
        \A before \in {HeightsBefore(k)}, chosen \in {placed[k].column} :
            /\ chosen \in 0..(columnCount - 1)
            /\ \A c \in 0..(columnCount - 1) :
                  \/ before[c + 1] > before[chosen + 1]
                  \/ before[c + 1] = before[chosen + 1] /\ c >= chosen

\* one placement that found the minimum shared by columns 1 and 2 and took
\* column 1, and a later one that found column 2 alone at the minimum, above 0
C13_Witness ==
    /\ columnCount = 3
    /\ \E k1, k2 \in 1..Len(placed) :
          /\ placed[k1].column = 1
          /\ HeightsBefore(k1)[2] = HeightsBefore(k1)[3]
          /\ HeightsBefore(k1)[1] > HeightsBefore(k1)[2]
          /\ placed[k2].column = 2
          /\ placed[k2].top > 0
          /\ HeightsBefore(k2)[1] > placed[k2].top
          /\ HeightsBefore(k2)[2] > placed[k2].top

\* the index in placed of the latest placement of card e (0 when there is none)
LastPlacement(e) ==
    LET ks == {k \in 1..Len(placed) : placed[k].elem = e}
    IN  IF ks = {} THEN 0 ELSE CHOOSE k \in ks : \A j \in ks : j <= k

\* C14: positionItem gives the card left = chosenColumn * (itemWidth + itemGap),
\* top = the height the chosen column had before this placement, and
\* width = itemWidth: every card placed since the latest reset carries the
\* three values of its latest placement.
C14_LeftTopWidth ==
    \A e \in ElemIds :
        \A k \in {LastPlacement(e)} :
            k # 0 =>
                LET chosenColumn == placed[k].column
                IN  style[e] = <<[left |-> chosenColumn * (itemWidth + itemGap),
                                  top |-> GrownBefore(chosenColumn, k),
                                  width |-> itemWidth]>>

\* a card placed in the third column under an earlier placement
C14_Witness ==
    \E e \in ElemIds :
        /\ LastPlacement(e) # 0
        /\ placed[LastPlacement(e)].column = 2
        /\ style[e] # <<>>
        /\ style[e][1].left = 2 * (itemWidth + itemGap)
        /\ style[e][1].top > 0
        /\ style[e][1].top = columnHeights[3] - placed[LastPlacement(e)].height - itemGap

RECURSIVE GrownIn(_, _, _, _, _)
\* what the placements pl[from..to] have added to column c with the gap g
GrownIn(pl, g, c, from, to) ==
    IF from > to THEN 0
    ELSE (IF pl[from].column = c THEN pl[from].height + g ELSE 0)
         + GrownIn(pl, g, c, from + 1, to)

\* C15: each positionItem adds exactly itemHeight + itemGap to the column it
\* chose and nothing to any other column, and changes none of columnCount,
\* itemWidth and itemGap: after a step of callbacks the globals are the same
\* and every column has grown by the sum over the step's placements in it;
\* after a pass the columns hold those sums over the pass's placements.
C15_OnlyChosenColumnGrows ==
    [][LET reset == passCount' # passCount
           base == IF reset THEN Zeros(columnCount') ELSE columnHeights
           from == IF reset THEN 1 ELSE Len(placed) + 1
       IN  /\ ~reset => /\ columnCount' = columnCount
                        /\ itemWidth' = itemWidth
                        /\ itemGap' = itemGap
                        /\ Len(columnHeights') = Len(columnHeights)
           /\ \A c \in 1..Len(columnHeights') :
                 columnHeights'[c] =
                     base[c] + GrownIn(placed', itemGap', c - 1, from, Len(placed'))]_vars

\* two cards of different heights in the first two of three columns, the
\* third column untouched
C15_Witness ==
    /\ columnCount = 3
    /\ Len(placed) = 2
    /\ placed[1].height # placed[2].height
    /\ columnHeights = <<placed[1].height + itemGap, placed[2].height + itemGap, 0>>

\* the container height is h px, the largest of the column heights
HeightIsMaxColumn ==
    /\ Len(gridHeight) = 1
    /\ \E c \in 1..Len(columnHeights) : gridHeight[1] = columnHeights[c]
    /\ \A c \in 1..Len(columnHeights) : gridHeight[1] >= columnHeights[c]

\* C16 as stated: after every positionItem the container height is the maximum
\* of columnHeights, and once the latest pass has completed the container
\* height is that maximum.
C16_CompletedPassHeightIsMax ==
    /\ placed # <<>> => HeightIsMaxColumn
    /\ (passCount >= 1 /\ resolved[passCount]) => HeightIsMaxColumn

\* C16, amended: the container height is 'auto' from a reset until the first
\* positionItem after it, and the maximum of columnHeights after every
\* positionItem; so once the latest pass has completed over at least one card
\* the container height is that maximum, while a completed pass over an empty
\* grid leaves it 'auto'.
C16_ContainerHeightIsMax ==
    /\ placed # <<>> => HeightIsMaxColumn
    /\ placed = <<>> => gridHeight = <<>>
    /\ (passCount >= 1 /\ resolved[passCount] /\ passItems[passCount] # <<>>)
           => HeightIsMaxColumn

\* the latest pass has completed over two cards and the container is as high
\* as the first column, which is not the column placed last
C16_Witness ==
    /\ passCount >= 1
    /\ resolved[passCount]
    /\ Len(passItems[passCount]) = 2
    /\ Len(placed) = 2
    /\ placed[2].column = 1
    /\ columnHeights[1] > columnHeights[2]
    /\ gridHeight = <<columnHeights[1]>>

\* C17: every layoutWaterfall call replaces the layout config and resets
\* columnHeights to columnCount zeros before it positions a card: in a pass
\* step the globals are those of the viewport width, columnHeights has
\* columnCount entries, all 0 when the pass places nothing, and every card
\* the step places gets the new itemWidth and a top that is the sum of this
\* pass's earlier placements in its column, nothing of the old heights.
C17_ResetBeforePositioning ==
    [][passCount' # passCount =>
          /\ columnCount' = TableColumns(innerWidth)
          /\ itemGap' = TableGap(innerWidth)
          /\ Len(columnHeights') = columnCount'
          /\ placed' = <<>> => columnHeights' = Zeros(columnCount')
          /\ \A k \in 1..Len(placed') :
                /\ placed'[k].pass = passCount'
                /\ placed'[k].column < columnCount'
                /\ placed'[k].top =
                       GrownIn(placed', itemGap', placed'[k].column, 1, k - 1)
                /\ style'[placed'[k].elem][1].width = itemWidth']_vars

\* a second pass has placed its first card at top 0 after the first pass had
\* grown the columns
C17_Witness ==
    /\ passCount = 2
    /\ positionedBy[1] # {}
    /\ placed # <<>>
    /\ \A k \in 1..Len(placed) : placed[k].pass = 2
    /\ placed[1].top = 0
    /\ placed[1].column = 0

\* C18: between two consecutive resets columnHeights changes only through
\* positionItem and no column gets lower: in every step that is not a pass,
\* columnHeights keeps its length, every column is at least as high as
\* before, and columnHeights differs only when the step placed a card.
C18_HeightsGrowOnlyByPlacement ==
    [][passCount' = passCount =>
          /\ Len(columnHeights') = Len(columnHeights)
          /\ \A c \in 1..Len(columnHeights) : columnHeights'[c] >= columnHeights[c]
          /\ columnHeights' # columnHeights => Len(placed') > Len(placed)]_vars

\* one column that two thumbnail events have raised one after the other
\* since the reset of the pass
C18_Witness ==
    /\ columnCount = 1
    /\ Len(placed) = 2
    /\ placed[1].elem \in deferred
    /\ placed[2].elem \in deferred
    /\ placed[1].elem # placed[2].elem
    /\ placed[2].top = placed[1].height + itemGap
    /\ columnHeights[1] = placed[2].top + placed[2].height + itemGap

\* the latest pass ran over folder cards only, at least one
FolderPass ==
    /\ passCount >= 1
    /\ passItems[passCount] # <<>>
    /\ \A e \in Range(passItems[passCount]) : elems[e] = "folder"

\* C19 as stated: after a pass over N >= 1 folder cards only, any two column
\* heights differ by less than one folder card's height, 280, and the
\* container height is the maximum of columnHeights.
C19_ColumnsWithinFolderHeight ==
    FolderPass =>
        /\ \A c1, c2 \in 1..columnCount : columnHeights[c1] - columnHeights[c2] < 280
        /\ HeightIsMaxColumn

\* C19, amended: after a pass over N >= 1 folder cards only, any two column
\* heights are equal or differ by exactly 280 + itemGap, one folder card and
\* its gap, and the container height is the maximum of columnHeights.
C19_ColumnsWithinFolderAndGap ==
    FolderPass =>
        /\ \A c1, c2 \in 1..columnCount :
              columnHeights[c1] - columnHeights[c2] \in {0, 280 + itemGap, -(280 + itemGap)}
        /\ HeightIsMaxColumn

\* five folders in three columns: two columns hold two cards, the third one
C19_Witness ==
    /\ FolderPass
    /\ Len(passItems[passCount]) = 5
    /\ columnCount = 3
    /\ columnHeights[1] = columnHeights[2]
    /\ columnHeights[1] - columnHeights[3] = 280 + itemGap
    /\ gridHeight = <<columnHeights[1]>>

\* ceil(n / c)
CeilDiv(n, c) == (n + c - 1) \div c

\* the k-th card (0-based, document order) of the latest pass is in column
\* k mod C at top floor(k / C) * (280 + g), and the container is
\* ceil(N / C) * (280 + g) high
RoundRobin ==
    LET items == passItems[passCount]
        N == Len(items)
        C == columnCount
        g == itemGap
    IN  /\ Len(placed) = N
        /\ \A k \in 0..(N - 1) :
              /\ placed[k + 1].elem = items[k + 1]
              /\ placed[k + 1].column = k % C
              /\ placed[k + 1].top = (k \div C) * (280 + g)
              /\ style[items[k + 1]][1].top = (k \div C) * (280 + g)
        /\ gridHeight = <<CeilDiv(N, C) * (280 + g)>>

\* the columns and the tops of the latest pass's cards, in document order
PassColumns == [k \in 1..Len(placed) |-> placed[k].column]
PassTops == [k \in 1..Len(placed) |-> placed[k].top]

ResizeCallbackRuns == resizeTimer /\ ~resizeTimer'

\* C21 as stated: a burst of resize events, each less than 300 ms after the
\* one before, triggers layoutWaterfall exactly once, 300 ms after the last
\* event, and no relayout fires while events keep arriving within the delay.
C21_ResizeBurstAlwaysRelayout ==
    [][/\ ResizeCallbackRuns =>
              /\ sinceResize = 300
              /\ passCount' = passCount + 1
       /\ (passCount' # passCount /\ layoutTimers' = layoutTimers) =>
              ResizeCallbackRuns /\ sinceResize = 300
       /\ sinceResize' <= 300]_vars

\* C21, amended: the debounced callback runs exactly once per burst, only
\* when 300 ms have passed since the latest event, and that instant never
\* passes without it; it disarms the timer and calls layoutWaterfall once
\* when the grid has children, and not at all when the grid is empty; while
\* events keep arriving within the delay, no pass starts except one
\* scheduled by displayContent.
C21_ResizeBurstOneRelayout ==
    [][/\ ResizeCallbackRuns =>
              /\ sinceResize = 300
              /\ passCount' = passCount + (IF Len(grid) > 0 THEN 1 ELSE 0)
       /\ (passCount' # passCount /\ layoutTimers' = layoutTimers) =>
              ResizeCallbackRuns /\ sinceResize = 300
       /\ sinceResize' <= 300]_vars

\* the callback has run once, 500 ms after the first event of a burst whose
\* events kept arriving within the delay, and the relayout used the last width
C21_Witness ==
    /\ ~resizeTimer
    /\ burstMs = 500
    /\ Len(grid) > 0
    /\ passCount = 2
    /\ layoutWidth = innerWidth
    /\ layoutTimers = 0

\* C22: each of the four triggers starts a relayout pass when the grid has
\* items: a content render (it schedules the call, and the scheduled call
\* starts the pass), a view-mode toggle, the debounced window resize and a
\* thumbnail-size slider change.
C22_EveryTriggerRelayouts ==
    [][Len(grid) > 0 =>
          /\ layoutTimers' < layoutTimers => passCount' = passCount + 1
          /\ ResizeCallbackRuns => passCount' = passCount + 1
          /\ viewMode' # viewMode => passCount' = passCount + 1
          /\ thumbnailSize' # thumbnailSize => passCount' = passCount + 1]_vars

\* ---------------------------------------------------------------- C23
\* the thumbnail of card e has been measured: it loaded with non-zero natural
\* width and height
Measured(e) ==
    /\ elems[e] \in {"image", "recycle", "captioned", "captioned-recycle"}
    /\ img[e].complete /\ img[e].naturalWidth # 0 /\ img[e].naturalHeight # 0

\* C23: every placement of an image card whose thumbnail was measured has the
\* height itemWidth * naturalHeight / naturalWidth plus the caption height:
\* 50 with an .image-info, otherwise 30 with a .recycle-bin-info, otherwise 0
C23_MeasuredImageHeight ==
    \A k \in 1..Len(placed) :
        LET e == placed[k].elem
        IN  Measured(e) =>
                placed[k].height =
                    (itemWidth * img[e].naturalHeight) \div img[e].naturalWidth
                    + (IF elems[e] \in {"captioned", "captioned-recycle"} THEN 50
                       ELSE IF elems[e] = "recycle" THEN 30 ELSE 0)

\* a recycle card and a card with both captions, both measured at 200 x 400
\* and placed: heights 2 * itemWidth + 30 and 2 * itemWidth + 50
C23_Witness ==
    /\ Len(placed) = 2
    /\ \E j, k \in 1..2 :
          /\ elems[placed[j].elem] = "recycle" /\ Measured(placed[j].elem)
          /\ placed[j].height = 2 * itemWidth + 30
          /\ elems[placed[k].elem] = "captioned-recycle" /\ Measured(placed[k].elem)
          /\ placed[k].height = 2 * itemWidth + 50

\* ---------------------------------------------------------------- C24
\* C24: the step that starts a pass places every folder card of the grid, once
\* and with height 280, whatever itemWidth is and whatever the state of the
\* folder's preview image; no folder card is left waiting and no callback is
\* registered on it
C24_FolderPlacedAtOnce ==
    [][passCount' # passCount =>
          \A k \in 1..Len(grid) :
              LET e == grid[k]
              IN  elems[e] = "folder" =>
                      /\ e \in positionedBy'[passCount']
                      /\ e \notin deferred'
                      /\ e \notin waiting'[passCount']
                      /\ listeners'[e] = <<>>
                      /\ Cardinality({j \in 1..Len(placed') : placed'[j].elem = e}) = 1
                      /\ \A j \in 1..Len(placed') :
                            placed'[j].elem = e =>
                                placed'[j].pass = passCount' /\ placed'[j].height = 280]_vars

\* a folder card whose preview image has loaded and an image card whose
\* thumbnail is pending: the folder is placed with height 280 at itemWidth 302
\* and the image card waits
C24_Witness ==
    /\ passCount = 1
    /\ itemWidth = 302
    /\ \E e \in Range(grid) :
          /\ elems[e] = "folder"
          /\ img[e].complete /\ img[e].naturalHeight = 400
          /\ e \in positionedBy[1]
          /\ \E j \in 1..Len(placed) : placed[j].elem = e /\ placed[j].height = 280
    /\ \E e \in deferred : elems[e] = "image"

\* ---------------------------------------------------------------- C25
\* C25: an image card without a thumbnail element is treated like a card whose
\* thumbnail failed: the step that starts a pass places it, once and with
\* height itemWidth + 50, it is not left waiting and no callback is registered
\* on it; the placements made by an error event have the same height
C25_BareItemLikeFailedLoad ==
    [][/\ passCount' # passCount =>
             \A k \in 1..Len(grid) :
                 LET e == grid[k]
                 IN  elems[e] = "bare" =>
                         /\ e \in positionedBy'[passCount']
                         /\ e \notin waiting'[passCount']
                         /\ listeners'[e] = <<>>
                         /\ Cardinality({j \in 1..Len(placed') : placed'[j].elem = e}) = 1
                         /\ \A j \in 1..Len(placed') :
                               placed'[j].elem = e =>
                                   /\ placed'[j].pass = passCount'
                                   /\ placed'[j].height = itemWidth' + 50
       /\ \A e \in ElemIds :
             FiresError(e) =>
                 \A j \in (Len(placed) + 1)..Len(placed') :
                     placed'[j].elem = e /\ placed'[j].height = itemWidth + 50]_vars

\* a pass over a card without thumbnail and a card whose thumbnail then failed:
\* both are placed with height itemWidth + 50 and the pass has resolved
C25_Witness ==
    /\ passCount = 1 /\ resolved[1]
    /\ Len(placed) = 2
    /\ elems[placed[1].elem] = "bare"
    /\ elems[placed[2].elem] = "image"
    /\ img[placed[2].elem].complete /\ img[placed[2].elem].naturalWidth = 0
    /\ placed[1].height = itemWidth + 50
    /\ placed[2].height = itemWidth + 50

\* ---------------------------------------------------------------- C26
\* the placements a step makes: all of placed' when the step starts a pass
\* (the history is cleared by the reset), the appended ones otherwise
NewPlacements ==
    IF passCount' # passCount THEN 1..Len(placed') ELSE (Len(placed) + 1)..Len(placed')

\* C26: a pass positions a card at most once: no step makes a pass place a card
\* that pass has placed before, or place it twice; the event that runs the
\* callbacks of a thumbnail leaves no callback registered on it, so a load or
\* error dispatched later on the same thumbnail places nothing
C26_PositionedOncePerPass ==
    [][/\ \A j \in NewPlacements :
             placed'[j].elem \notin positionedBy[placed'[j].pass]
       /\ \A j, k \in NewPlacements :
             (placed'[j].elem = placed'[k].elem /\ placed'[j].pass = placed'[k].pass) => j = k
       /\ \A e \in ElemIds :
             (img'[e] # img[e] \/ (img[e].complete /\ listeners[e] # <<>>)) =>
                 listeners'[e] = <<>>
       /\ \A e \in ElemIds :
             (img[e].complete /\ img'[e] = img[e] /\ passCount' = passCount) =>
                 \A j \in NewPlacements : placed'[j].elem # e]_vars

\* the thumbnail of a card that pass 1 left waiting has loaded: pass 1 has
\* placed the card once, and no callback is registered on the thumbnail
C26_Witness ==
    \E e \in Range(grid) :
        /\ passCount = 1
        /\ e \in Range(passItems[1]) /\ e \in deferred
        /\ img[e].complete /\ img[e].naturalWidth # 0
        /\ e \in positionedBy[1]
        /\ listeners[e] = <<>>
        /\ Cardinality({j \in 1..Len(placed) : placed[j].elem = e /\ placed[j].pass = 1}) = 1

\* ---------------------------------------------------------------- C27
\* card e has had its outcome for a pass: it is a folder card or has no
\* thumbnail element, or its thumbnail has fired load (with any natural size,
\* zero included) or error
HasOutcome(e) == elems[e] \in {"folder", "bare"} \/ img[e].complete

\* C27: no item outcome keeps a pass from completing: the promise of a started
\* pass is resolved exactly when every card the pass took has had its outcome,
\* whichever outcome that is, and a card still awaited has a pending thumbnail
C27_EveryOutcomeResolves ==
    \A p \in 1..passCount :
        /\ resolved[p] <=> \A e \in Range(passItems[p]) : HasOutcome(e)
        /\ \A e \in waiting[p] : ~HasOutcome(e)

\* a resolved pass over two cards that waited: one thumbnail failed, the other
\* loaded with zero natural dimensions
C27_Witness ==
    /\ passCount = 1 /\ resolved[1]
    /\ Len(grid) = 2 /\ deferred = Range(grid)
    /\ \A e \in Range(grid) : img[e].complete /\ img[e].naturalWidth = 0
    /\ Len(placed) = 2

\* ---------------------------------------------------------------- C28
RECURSIVE SumOver(_, _, _)
\* the sum of f[k] over the indices k of the set ks
SumOver(f, ks, n) ==
    IF n = 0 THEN 0
    ELSE (IF n \in ks THEN f[n] ELSE 0) + SumOver(f, ks, n - 1)

\* C28: whenever the most recent pass has resolved (the pass over the cards now
\* in the grid, no render waiting for its pass), the height of every column
\* is the sum of itemHeight + itemGap over the cards of the grid whose current
\* position (their latest placement) is in that column: no card is counted
\* twice and no card that has left the grid is counted.
C28_HeightsMatchGridItems ==
    (passCount >= 1 /\ resolved[passCount] /\ passItems[passCount] = grid
     /\ layoutTimers = 0) =>
        \A c \in 1..columnCount :
            LET last == {k \in 1..Len(placed) :
                            /\ placed[k].elem \in Range(grid)
                            /\ k = LastPlacement(placed[k].elem)
                            /\ placed[k].column = c - 1}
                grown == [k \in 1..Len(placed) |-> placed[k].height + itemGap]
            IN  columnHeights[c] = SumOver(grown, last, Len(placed))

\* ---------------------------------------------------------------- C29
\* C29: no two cards of the grid positioned since the latest reset overlap:
\* when their current positions are in the same column, the intervals
\* [top, top + itemHeight) are disjoint and at least itemGap apart, whatever
\* the order of the load/error events and the interleaving of the passes.
C29_NoOverlapInColumn ==
    \A e \in Range(grid), f \in Range(grid) :
        \A ke \in {LastPlacement(e)}, kf \in {LastPlacement(f)} :
            (/\ e # f /\ ke # 0 /\ kf # 0
             /\ style[e][1].left = style[f][1].left
             /\ style[e][1].top <= style[f][1].top)
            => style[e][1].top + placed[ke].height + itemGap <= style[f][1].top

\* two image cards stacked in the one column of a 480 px window by the
\* callbacks of two interleaved passes, the second card's event first
C29_Witness ==
    /\ passCount = 2 /\ columnCount = 1
    /\ Len(grid) = 2 /\ Len(placed) = 4
    /\ \E k \in 1..4 : placed[k].pass = 1
    /\ placed[1].elem = grid[2]
    /\ style[grid[1]] # <<>> /\ style[grid[2]] # <<>>
    /\ style[grid[2]][1].top + placed[LastPlacement(grid[2])].height + itemGap
           <= style[grid[1]][1].top

\* ---------------------------------------------------------------- C30
\* C30: the step that starts a pass positions the folder cards, the cards
\* without thumbnail and the cards whose thumbnail is complete, in document
\* order, and leaves every card with a pending thumbnail waiting; each later
\* load/error event appends the placements of its card, one per registered
\* callback in registration order, after everything placed before: pending
\* cards are placed in the order of their events.
C30_AtOnceInDocumentOrderThenEvents ==
    [][/\ passCount' # passCount =>
             LET AtOnce(e) == elems[e] \in {"folder", "bare"} \/ img[e].complete
                 atOnce == SelectSeq(grid, AtOnce)
             IN  /\ Len(placed') = Len(atOnce)
                 /\ \A j \in 1..Len(atOnce) :
                       placed'[j].elem = atOnce[j] /\ placed'[j].pass = passCount'
                 /\ deferred' = {e \in Range(grid) : ~AtOnce(e)}
       /\ passCount' = passCount =>
             /\ Len(placed') >= Len(placed)
             /\ SubSeq(placed', 1, Len(placed)) = placed
             /\ \A e \in ElemIds :
                   (~img[e].complete /\ img'[e].complete) =>
                       /\ Len(placed') = Len(placed) + Len(listeners[e])
                       /\ \A i \in 1..Len(listeners[e]) :
                             /\ placed'[Len(placed) + i].elem = e
                             /\ placed'[Len(placed) + i].pass = listeners[e][i]]_vars

\* a pending image card followed by a folder card: the pass placed the folder
\* first, the image card was placed second, when its thumbnail loaded
C30_Witness ==
    /\ passCount = 1 /\ Len(grid) = 2
    /\ elems[grid[1]] = "image" /\ elems[grid[2]] = "folder"
    /\ deferred = {grid[1]}
    /\ Len(placed) = 2
    /\ placed[1].elem = grid[2] /\ placed[2].elem = grid[1]
    /\ placed[1].pass = 1 /\ placed[2].pass = 1
    /\ img[grid[1]].naturalWidth # 0

\* ---------------------------------------------------------------- C31
\* C31: columnHeights has exactly columnCount entries in every reachable state,
\* the initial one included (no entry, columnCount 0); positionItem runs only
\* after a pass has set columnCount to at least 1: whenever a card has been
\* placed or a callback that will place one is registered, columnCount >= 1.
C31_HeightsLengthIsColumnCount ==
    /\ Len(columnHeights) = columnCount
    /\ (placed # <<>> \/ \E e \in DOMAIN listeners : listeners[e] # <<>>) =>
           (columnCount >= 1 /\ passCount >= 1)
    /\ passCount = 0 => (columnCount = 0 /\ columnHeights = <<>>)

\* a first pass at 480 px (one column) placed a card and left another waiting,
\* then a pass at 1000 px (three columns) placed the first card again: three
\* heights, and the callbacks of both passes registered
C31_Witness ==
    /\ passCount = 2
    /\ columnCount = 3 /\ Len(columnHeights) = 3
    /\ Len(passItems[1]) = 2
    /\ Len(placed) = 1
    /\ \E e \in DOMAIN listeners : Len(listeners[e]) = 2

\* ------------------------------------------------- browsing and selection
\* the directories the select box offers
Directories == {"photos"}

\* values of total_pages in a listing response
PageCounts == {0, 1, 2}

\* cards created over a browsing behaviour, and their identities
BrowseCap == MaxElems
BrowseIds == 1..BrowseCap

\* the layout engine's variables that rendering a listing leaves alone
engineVars == <<innerWidth, columnHeights, columnCount, itemWidth, itemGap, img, listeners,
                style, gridHeight, resizeTimer, resizeDelay, sinceResize, burstMs, passCount,
                passItems, deferred, waiting, resolved, positionedBy, placed, layoutWidth,
                viewMode, thumbnailSize>>

\* a list of n entries
Entries(n) == [j \in 1..n |-> "entry"]

\* the sequence s without its k-th element
RemoveAt(s, k) == SubSeq(s, 1, k - 1) \o SubSeq(s, k + 1, Len(s))

\* the fetch of /api/browse and of /api/recycle-bin; exit says that the caller
\* awaiting the load leaves the selection mode afterwards
BrowseRequest(exit) == [kind |-> "browse", exit |-> exit]
RecycleRequest(exit) == [kind |-> "recycle", exit |-> exit]

\* loadImages() called with the requests reqs in flight: nothing without a
\* current directory, else the fetch of the directory listing
LoadImages(reqs, dir, exit) == IF dir = "" THEN reqs ELSE Append(reqs, BrowseRequest(exit))

\* loadRecycleBinItems()
LoadRecycleBinItems(reqs, exit) == Append(reqs, RecycleRequest(exit))

\* the .image-item cards of the document (data-index 0 .. ImageItems - 1)
ImageItems == Cardinality({k \in 1..Len(grid) : elems[grid[k]] # "folder"})

\* directorySelect change to the option d: the select is disabled while the
\* recycle bin is shown
HandleDirectoryChange(d) ==
    /\ ~isRecycleBinMode
    /\ d # currentDirectory
    /\ currentDirectory' = d
    /\ IF d # ""
       THEN /\ Len(requests) < MaxRequests
            /\ currentPage' = 1
            /\ requests' = LoadImages(requests, d, FALSE)
            /\ UNCHANGED grid
       ELSE /\ grid' = <<>>
            /\ UNCHANGED <<currentPage, requests>>
    /\ UNCHANGED <<elems, layoutTimers, totalPages, currentImages, currentRecycleBinItems,
                   isSelectionMode, selectedImages, isRecycleBinMode>>
    /\ UNCHANGED <<prevDisabled, nextDisabled>>
    /\ UNCHANGED engineVars

\* sortBy / sortOrder change: the handler is loadImages
SortChange ==
    /\ currentDirectory # ""
    /\ Len(requests) < MaxRequests
    /\ requests' = LoadImages(requests, currentDirectory, FALSE)
    /\ UNCHANGED <<elems, grid, layoutTimers, currentDirectory, currentPage, totalPages,
                   currentImages, currentRecycleBinItems, isSelectionMode, selectedImages,
                   isRecycleBinMode>>
    /\ UNCHANGED <<prevDisabled, nextDisabled>>
    /\ UNCHANGED engineVars

\* the page is changed to newPage and loaded
GoToPage(newPage) ==
    /\ Len(requests) < MaxRequests
    /\ currentPage' = newPage
    /\ requests' = LoadImages(requests, currentDirectory, FALSE)
    /\ UNCHANGED <<elems, grid, layoutTimers, currentDirectory, totalPages, currentImages,
                   currentRecycleBinItems, isSelectionMode, selectedImages, isRecycleBinMode>>
    /\ UNCHANGED <<prevDisabled, nextDisabled>>
    /\ UNCHANGED engineVars

\* variant: the page is changed without the range test
ChangePage_unguarded(direction) ==
    /\ IF direction = 1 THEN ~nextDisabled ELSE ~prevDisabled
    /\ currentPage + direction >= 0
    /\ GoToPage(currentPage + direction)

\* a click on prevPage (direction -1) or nextPage (direction 1), which a
\* disabled button does not deliver: changePage(direction)
ChangePage(direction) ==
    /\ IF direction = 1 THEN ~nextDisabled ELSE ~prevDisabled
    /\ LET newPage == currentPage + direction
       IN  IF newPage >= 1 /\ newPage <= totalPages
           THEN GoToPage(newPage)
           ELSE UNCHANGED vars

\* toggleRecycleBinMode()
ToggleRecycleBinMode ==
    /\ Len(requests) < MaxRequests
    /\ isRecycleBinMode' = ~isRecycleBinMode
    /\ requests' = IF ~isRecycleBinMode THEN LoadRecycleBinItems(requests, FALSE)
                   ELSE LoadImages(requests, currentDirectory, FALSE)
    /\ UNCHANGED <<elems, grid, layoutTimers, currentDirectory, currentPage, totalPages,
                   currentImages, currentRecycleBinItems, isSelectionMode, selectedImages>>
    /\ UNCHANGED <<prevDisabled, nextDisabled>>
    /\ UNCHANGED engineVars

\* toggleSelectionMode(): leaving the mode clears the selection
ToggleSelectionMode ==
    /\ isSelectionMode' = ~isSelectionMode
    /\ selectedImages' = IF isSelectionMode THEN {} ELSE selectedImages
    /\ UNCHANGED <<elems, grid, layoutTimers, currentDirectory, currentPage, totalPages,
                   currentImages, currentRecycleBinItems, isRecycleBinMode, requests>>
    /\ UNCHANGED <<prevDisabled, nextDisabled>>
    /\ UNCHANGED engineVars

\* a click on the .image-item with data-index index in selection mode:
\* selectImage(index, imageItem)
ClickImage(index) ==
    /\ isSelectionMode
    /\ index < ImageItems
    /\ selectedImages' = IF index \in selectedImages THEN selectedImages \ {index}
                         ELSE selectedImages \cup {index}
    /\ UNCHANGED <<elems, grid, layoutTimers, currentDirectory, currentPage, totalPages,
                   currentImages, currentRecycleBinItems, isSelectionMode, isRecycleBinMode,
                   requests>>
    /\ UNCHANGED <<prevDisabled, nextDisabled>>
    /\ UNCHANGED engineVars

\* clearSelection() from its button
ClearSelection ==
    /\ isSelectionMode
    /\ selectedImages' = {}
    /\ UNCHANGED <<elems, grid, layoutTimers, currentDirectory, currentPage, totalPages,
                   currentImages, currentRecycleBinItems, isSelectionMode, isRecycleBinMode,
                   requests>>
    /\ UNCHANGED <<prevDisabled, nextDisabled>>
    /\ UNCHANGED engineVars

\* some selected index has no entry in list
Missing(list) == \E i \in selectedImages : i >= Len(list)

\* downloadSelectedImages(): reads list[index].file_path of every selected
\* index and throws at a missing entry; no variable of the page changes
DownloadSelectedImages ==
    /\ selectedImages # {}
    /\ UNCHANGED vars

\* confirmDelete(): reads currentImages[index].file_path of every selected
\* index (throwing at a missing entry), then posts the delete; the dialog
\* opens on a non-empty selection
ConfirmDelete ==
    /\ selectedImages # {}
    /\ IF Missing(currentImages)
       THEN UNCHANGED requests
       ELSE /\ Len(requests) < MaxRequests
            /\ requests' = Append(requests, [kind |-> "delete", exit |-> TRUE])
    /\ UNCHANGED <<elems, grid, layoutTimers, currentDirectory, currentPage, totalPages,
                   currentImages, currentRecycleBinItems, isSelectionMode, selectedImages,
                   isRecycleBinMode>>
    /\ UNCHANGED <<prevDisabled, nextDisabled>>
    /\ UNCHANGED engineVars

\* confirmRecycleBinAction(): reads the entry of every selected index in the
\* list of the mode (throwing at a missing entry), then posts the restore or
\* the permanent delete
ConfirmRecycleBinAction ==
    /\ selectedImages # {}
    /\ IF Missing(IF isRecycleBinMode THEN currentRecycleBinItems ELSE currentImages)
       THEN UNCHANGED requests
       ELSE /\ Len(requests) < MaxRequests
            /\ requests' = Append(requests, [kind |-> "action", exit |-> TRUE])
    /\ UNCHANGED <<elems, grid, layoutTimers, currentDirectory, currentPage, totalPages,
                   currentImages, currentRecycleBinItems, isSelectionMode, selectedImages,
                   isRecycleBinMode>>
    /\ UNCHANGED <<prevDisabled, nextDisabled>>
    /\ UNCHANGED engineVars

\* what follows an awaited load in confirmDelete / confirmRecycleBinAction:
\* if (isSelectionMode) toggleSelectionMode()
AfterLoad(exit) ==
    IF exit /\ isSelectionMode
    THEN isSelectionMode' = FALSE /\ selectedImages' = {}
    ELSE UNCHANGED <<isSelectionMode, selectedImages>>

\* updatePagination() once totalPages has become pages
UpdatePagination(pages) ==
    /\ prevDisabled' = (currentPage = 1)
    /\ nextDisabled' = (currentPage = pages)

\* the response of /api/browse arrives with nf folders, ni images and tp pages:
\* the rest of loadImages
LoadImagesResponse(k, nf, ni, tp) ==
    /\ k \in 1..Len(requests)
    /\ requests[k].kind = "browse"
    /\ requests' = RemoveAt(requests, k)
    /\ currentImages' = Entries(ni)
    /\ totalPages' = tp
    /\ DisplayContentCards(nf, ni, BrowseCap)
    /\ UpdatePagination(tp)
    /\ AfterLoad(requests[k].exit)
    /\ UNCHANGED <<currentDirectory, currentPage, currentRecycleBinItems, isRecycleBinMode>>

\* displayRecycleBinItems(items) with n items: the grid is emptied; recycle
\* cards are appended and the layout is scheduled unless the bin is empty
DisplayRecycleBinItems(n, cap) ==
    /\ IF n = 0
       THEN grid' = <<>> /\ UNCHANGED <<elems, layoutTimers>>
       ELSE /\ Len(elems) + n <= cap
            /\ passCount + layoutTimers < MaxPasses
            /\ elems' = elems \o [k \in 1..n |-> "recycle"]
            /\ grid' = [k \in 1..n |-> Len(elems) + k]
            /\ layoutTimers' = layoutTimers + 1
    /\ UNCHANGED engineVars

\* the response of /api/recycle-bin arrives with n items and tp pages: the rest
\* of loadRecycleBinItems
LoadRecycleBinResponse(k, n, tp) ==
    /\ k \in 1..Len(requests)
    /\ requests[k].kind = "recycle"
    /\ requests' = RemoveAt(requests, k)
    /\ currentRecycleBinItems' = Entries(n)
    /\ totalPages' = tp
    /\ DisplayRecycleBinItems(n, BrowseCap)
    /\ UpdatePagination(tp)
    /\ AfterLoad(requests[k].exit)
    /\ UNCHANGED <<currentDirectory, currentPage, currentImages, isRecycleBinMode>>

\* the fetch of a listing fails: the catch branch replaces the grid by the
\* error message
LoadFails(k) ==
    /\ k \in 1..Len(requests)
    /\ requests[k].kind \in {"browse", "recycle"}
    /\ requests' = RemoveAt(requests, k)
    /\ grid' = <<>>
    /\ AfterLoad(requests[k].exit)
    /\ UNCHANGED <<elems, layoutTimers, currentDirectory, currentPage, totalPages,
                   currentImages, currentRecycleBinItems, isRecycleBinMode>>
    /\ UNCHANGED <<prevDisabled, nextDisabled>>
    /\ UNCHANGED engineVars

\* the response of the post of confirmDelete or confirmRecycleBinAction: on
\* success the listing is loaded again (confirmDelete always calls loadImages,
\* confirmRecycleBinAction the load of the mode) and awaited
PostResponse(k, success) ==
    /\ k \in 1..Len(requests)
    /\ requests[k].kind \in {"delete", "action"}
    /\ IF ~success
       THEN /\ requests' = RemoveAt(requests, k)
            /\ UNCHANGED <<isSelectionMode, selectedImages>>
       ELSE IF requests[k].kind = "action" /\ isRecycleBinMode
       THEN /\ requests' = LoadRecycleBinItems(RemoveAt(requests, k), TRUE)
            /\ UNCHANGED <<isSelectionMode, selectedImages>>
       ELSE /\ requests' = LoadImages(RemoveAt(requests, k), currentDirectory, TRUE)
            /\ AfterLoad(currentDirectory = "")
    /\ UNCHANGED <<elems, grid, layoutTimers, currentDirectory, currentPage, totalPages,
                   currentImages, currentRecycleBinItems, isRecycleBinMode>>
    /\ UNCHANGED <<prevDisabled, nextDisabled>>
    /\ UNCHANGED engineVars

\* the page after DOMContentLoaded, before a directory is chosen
BrowseInit == \E w \in {1000} : InitOver(w, BrowseIds)

\* the tasks of browsing: the events of the toolbar, of the cards and of the
\* dialogs, and the answers to the fetches in flight in any order. The layout
\* timers the renders start stay pending here; the passes they run are the
\* subject of Spec
BrowseNext ==
    \/ \E d \in Directories \cup {""} : HandleDirectoryChange(d)
    \/ SortChange
    \/ \E direction \in {-1, 1} : ChangePage(direction)
    \/ ToggleRecycleBinMode
    \/ ToggleSelectionMode
    \/ \E index \in 0..(MaxElems - 1) : ClickImage(index)
    \/ ClearSelection
    \/ DownloadSelectedImages
    \/ ConfirmDelete
    \/ ConfirmRecycleBinAction
    \/ \E k \in 1..MaxRequests, ni \in 0..MaxElems, tp \in PageCounts :
          LoadImagesResponse(k, 0, ni, tp)
    \/ \E k \in 1..MaxRequests, n \in 0..MaxElems, tp \in PageCounts :
          LoadRecycleBinResponse(k, n, tp)
    \/ \E k \in 1..MaxRequests : LoadFails(k)
    \/ \E k \in 1..MaxRequests, success \in BOOLEAN : PostResponse(k, success)

BrowseSpec == BrowseInit /\ [][BrowseNext]_vars

\* ------------------------------------------------- C32
\* the list the grid displays in the current mode
DisplayedList == IF isRecycleBinMode THEN currentRecycleBinItems ELSE currentImages

\* C32: once every load has been answered, every index in selectedImages is a
\* valid index of the displayed list (below currentImages.length, or
\* currentRecycleBinItems.length in recycle-bin mode), so confirmDelete and
\* downloadSelectedImages find an entry for every selected index
C32_SelectedIndexesValid ==
    requests = <<>> => \A i \in selectedImages : i < Len(DisplayedList)

\* ------------------------------------------------- C33
\* C33: changePage(direction) changes currentPage only to currentPage +
\* direction and only when that page lies in 1..totalPages, leaving totalPages
\* alone and loading the new page; whenever totalPages stays as it is a
\* currentPage inside 1..totalPages stays inside
C33_PageStaysInRange ==
    [][/\ (currentPage' # currentPage /\ currentDirectory' = currentDirectory) =>
              /\ currentPage' \in {currentPage - 1, currentPage + 1}
              /\ currentPage' >= 1
              /\ currentPage' <= totalPages
              /\ totalPages' = totalPages
              /\ currentDirectory # "" => requests' = Append(requests, BrowseRequest(FALSE))
       /\ (currentPage \in 1..totalPages /\ totalPages' = totalPages) =>
              currentPage' \in 1..totalPages]_vars

\* the next-page button has moved to the last page and loads it, and is still
\* enabled: a further click reaches changePage and finds page 3 out of range
C33_Witness ==
    /\ currentPage = 2
    /\ totalPages = 2
    /\ ~nextDisabled
    /\ requests = <<BrowseRequest(FALSE)>>

\* ------------------------------------------------- C34
\* the loads of the normal directory listing among the requests reqs
BrowseLoads(reqs) == Cardinality({k \in 1..Len(reqs) : reqs[k].kind = "browse"})

\* C34: while isRecycleBinMode is true (before and after the step) no step
\* issues a load of the normal directory listing: every reload triggered in
\* that mode loads the recycle-bin listing
C34_RecycleModeLoadsRecycleBin ==
    [][(isRecycleBinMode /\ isRecycleBinMode') =>
           BrowseLoads(requests') <= BrowseLoads(requests)]_vars

====
